---- MODULE Spec2Model ----
(***************************************************************************)
(* Model of app/src/main/cpp/container_native.cpp: the JNI entry point     *)
(* Java_com_toycontainer_Container_createNamespacedProcess.  The function  *)
(* may be entered from several Java threads; each invocation has its own   *)
(* arguments (env, clazz) and its own local `flags`.  The operating-system *)
(* state the function could touch through <sched.h>, <sys/wait.h> and      *)
(* <unistd.h> (processes, namespaces, unreaped children) is carried along  *)
(* so that the absence of any effect on it is something the model checks.  *)
(***************************************************************************)
EXTENDS Integers, Naturals, Sequences, FiniteSets, TLC

\* ---------------------------------------------------------------- bounds
NumThreads == 2
MaxCalls == 3
NumEnvs == 2
NumClasses == 2

Threads == 1..NumThreads
Envs == 1..NumEnvs
Classes == 1..NumClasses

\* ------------------------------------------------- platform flag values
\* <sched.h> values of the three macros used on line 8
CLONE_NEWNS == 131072
CLONE_NEWUTS == 67108864
CLONE_NEWPID == 536870912

\* value bits of a 32-bit two's-complement int (jint); bit 31 is the sign
ValueBits == 31

\* ------------------------------------------------------ pure operators
RECURSIVE Pow2(_)
Pow2(n) == IF n = 0 THEN 1 ELSE 2 * Pow2(n - 1)

\* bit i of the non-negative integer n
Bit(n, i) == (n \div Pow2(i)) % 2

\* the C operator & on non-negative ints, as a slip for |
RECURSIVE BitAnd(_, _)
BitAnd(a, b) ==
    IF a = 0 \/ b = 0 THEN 0
    ELSE (IF a % 2 = 1 /\ b % 2 = 1 THEN 1 ELSE 0)
         + 2 * BitAnd(a \div 2, b \div 2)

\* the C operator | on non-negative ints
RECURSIVE BitOr(_, _)
BitOr(a, b) ==
    IF a = 0 THEN b
    ELSE IF b = 0 THEN a
    ELSE (IF a % 2 = 1 \/ b % 2 = 1 THEN 1 ELSE 0)
         + 2 * BitOr(a \div 2, b \div 2)

\* line 8: CLONE_NEWUTS | CLONE_NEWPID | CLONE_NEWNS (left associative)
FlagsExpr == BitOr(BitOr(CLONE_NEWUTS, CLONE_NEWPID), CLONE_NEWNS)

\* the namespace kinds a flag word asks for
NsKinds(f) ==
    {k \in {"uts", "pid", "mnt"} :
        \/ k = "uts" /\ (f \div CLONE_NEWUTS) % 2 = 1
        \/ k = "pid" /\ (f \div CLONE_NEWPID) % 2 = 1
        \/ k = "mnt" /\ (f \div CLONE_NEWNS) % 2 = 1}

\* a body that would pass its flags to clone(2)
SyscallsWithClone == <<"clone">>

\* the system calls the function body issues between lines 8 and 9: none
Syscalls == <<>>

\* effect of one system call on the operating-system state
ApplySyscall(os, call, f, n) ==
    IF call = "clone"
    THEN [procs    |-> os.procs \cup {<<"child", n>>},
          nss      |-> os.nss \cup {<<k, n>> : k \in NsKinds(f)},
          children |-> os.children \cup {<<"child", n>>}]
    ELSE os

RECURSIVE ApplySyscalls(_, _, _, _)
ApplySyscalls(os, calls, f, n) ==
    IF calls = <<>> THEN os
    ELSE ApplySyscalls(ApplySyscall(os, Head(calls), f, n), Tail(calls), f, n)

\* --------------------------------------------------------------- state
\* pc: each thread's position; args: <<env, clazz>> of the call in progress;
\* flags: the local of line 8, <<>> until it is initialised; ret: the value
\* the thread's last call returned, <<>> before its first return;
\* returned: every value any call has returned; ncalls: calls entered.
VARIABLES pc, args, flags, ret, returned, ncalls,
          processes, namespaces, children

vars == <<pc, args, flags, ret, returned, ncalls,
          processes, namespaces, children>>

HostProcesses == {<<"jvm", 0>>}
HostNamespaces == {<<"uts", 0>>, <<"pid", 0>>, <<"mnt", 0>>}

Init ==
    /\ pc = [t \in Threads |-> "idle"]
    /\ args = [t \in Threads |-> <<>>]
    /\ flags = [t \in Threads |-> <<>>]
    /\ ret = [t \in Threads |-> <<>>]
    /\ returned = {}
    /\ ncalls = 0
    /\ processes = HostProcesses
    /\ namespaces = HostNamespaces
    /\ children = {}

\* line 7: a thread enters the native method with its JNIEnv* and jclass
Enter(t, e, c) ==
    /\ pc[t] = "idle"
    /\ ncalls < MaxCalls
    /\ pc' = [pc EXCEPT ![t] = "line8"]
    /\ args' = [args EXCEPT ![t] = <<e, c>>]
    /\ ncalls' = ncalls + 1
    /\ UNCHANGED <<flags, ret, returned, processes, namespaces, children>>

\* line 8: int flags = CLONE_NEWUTS | CLONE_NEWPID | CLONE_NEWNS;
ComputeFlags(t) ==
    /\ pc[t] = "line8"
    /\ flags' = [flags EXCEPT ![t] = <<FlagsExpr>>]
    /\ pc' = [pc EXCEPT ![t] = "line9"]
    /\ UNCHANGED <<args, ret, returned, ncalls,
                   processes, namespaces, children>>

\* line 9: return flags;  (with whatever system calls the body issued)
Return(t) ==
    /\ pc[t] = "line9"
    /\ LET os == ApplySyscalls([procs |-> processes, nss |-> namespaces,
                                children |-> children],
                               Syscalls, flags[t][1], ncalls)
       IN  /\ processes' = os.procs
           /\ namespaces' = os.nss
           /\ children' = os.children
    /\ ret' = [ret EXCEPT ![t] = flags[t]]
    /\ returned' = returned \cup {flags[t][1]}
    /\ pc' = [pc EXCEPT ![t] = "idle"]
    /\ args' = [args EXCEPT ![t] = <<>>]
    /\ flags' = [flags EXCEPT ![t] = <<>>]
    /\ UNCHANGED ncalls

Next ==
    \/ \E t \in Threads, e \in Envs, c \in Classes : Enter(t, e, c)
    \/ \E t \in Threads : ComputeFlags(t)
    \/ \E t \in Threads : Return(t)

Spec == Init /\ [][Next]_vars

\* --------------------------------------------------------------- claims

\* C1: a call to createNamespacedProcess creates no process: every step of
\* every call leaves the set of processes, the set of namespaces and the set
\* of children awaiting a reap unchanged; a call changes only the caller's
\* return value.
NoProcessCreation ==
    [][/\ processes' = processes
       /\ namespaces' = namespaces
       /\ children' = children]_vars

\* C1 witness: every permitted call has returned, and the host still has
\* exactly its original processes and namespaces.
AllCallsReturned ==
    /\ ncalls = MaxCalls
    /\ \A t \in Threads : pc[t] = "idle"
    /\ \A t \in Threads : ret[t] # <<>>
    /\ processes = HostProcesses
    /\ namespaces = HostNamespaces

\* the bit positions of the three namespace flags
FlagBits == {i \in 0..(ValueBits - 1) :
                Pow2(i) \in {CLONE_NEWUTS, CLONE_NEWPID, CLONE_NEWNS}}

\* C2: whatever env and clazz were, every value createNamespacedProcess has
\* returned is the bitwise union of the UTS, PID and mount flags: each of
\* the three bits is set, no other bit (the sign bit included) is set, and
\* all calls returned the same value.
ReturnsFlagUnion ==
    /\ Cardinality(FlagBits) = 3
    /\ Cardinality(returned) <= 1
    /\ \A r \in returned \cup {ret[t][1] : t \in {u \in Threads : ret[u] # <<>>}} :
          /\ r >= 0
          /\ \A i \in 0..(ValueBits - 1) : (Bit(r, i) = 1) <=> (i \in FlagBits)

\* C2 witness: both threads have returned from a call, and one of them is
\* about to return from a further call made with other arguments.
ReturnedUnderDifferentArgs ==
    \E t, u \in Threads :
        /\ t # u
        /\ ret[t] # <<>>
        /\ ret[u] # <<>>
        /\ pc[u] = "line9"
        /\ args[u] = <<NumEnvs, 1>>
        /\ returned # {}

====
